---------------------------- MODULE Spec2Model ----------------------------
(***************************************************************************)
(* A model of PyWiiLoad (src/wiiload.py): one run of main(), from the      *)
(* command line to the bytes handed to the socket.                         *)
(*                                                                         *)
(* Text is modelled as a tuple of code points (Python 3 str) or of bytes   *)
(* (Python 2 str, and everything handed to conn.send).  The compressed      *)
(* payload is modelled by its length; a slice c_data[lo:hi] of it is the    *)
(* pair <<lo, hi>> of its offsets.                                          *)
(***************************************************************************)
EXTENDS Integers, Sequences, FiniteSets, TLC

(***************************************************************************)
(* Program constants.                                                      *)
(***************************************************************************)
WIILOAD_VERSION_MAJOR == 0
WIILOAD_VERSION_MINOR == 5
chunk_size == 1024 * 128
WII_PORT == 4299

(***************************************************************************)
(* Bounds of the model.                                                    *)
(***************************************************************************)
\* the compressed payloads tried span up to this many full chunks
MaxFullChunks == 2
\* how many bytes handed to conn.send the socket may leave untaken in a run
MaxUnwritten == 1
\* how many times one run answers the directory prompt
MaxPrompts == 2
\* the chunk planner alone is tried on lengths within this distance of
\* every multiple of chunk_size
LenSpread == 12

(***************************************************************************)
(* Text helpers: Python's str/bytes operations the program uses.           *)
(***************************************************************************)
None == <<-1>>

Min(a, b) == IF a < b THEN a ELSE b

\* A number that may pass 2^31 - 1 (a file's size, a value handed to
\* struct.pack) is the pair <<hi, lo>> worth hi * 65536 + lo, lo < 65536.
W(v) == <<v \div 65536, v % 65536>>

\* s[k:]
SliceFrom(s, k) == SubSeq(s, k + 1, Len(s))

\* s[:k]
SliceTo(s, k) == SubSeq(s, 1, k)

\* s.rfind(c) + 1: the 1-based position of the last c in s, 0 when absent
RECURSIVE RFind1(_, _)
RFind1(s, c) ==
    IF s = <<>> THEN 0
    ELSE IF s[Len(s)] = c THEN Len(s)
    ELSE RFind1(SliceTo(s, Len(s) - 1), c)

\* s.rstrip("/")
RECURSIVE RStripSlash(_)
RStripSlash(s) ==
    IF s # <<>> /\ s[Len(s)] = 47 THEN RStripSlash(SliceTo(s, Len(s) - 1))
    ELSE s

AllSlashes(s) == \A i \in 1..Len(s) : s[i] = 47

\* os.path.split(p): <<head, tail>>
PathSplit(p) ==
    LET i    == RFind1(p, 47)
        head == SliceTo(p, i)
        tail == SliceFrom(p, i)
    IN  IF head # <<>> /\ ~AllSlashes(head)
        THEN <<RStripSlash(head), tail>>
        ELSE <<head, tail>>

\* os.path.basename(p)
BaseName(p) == SliceFrom(p, RFind1(p, 47))

\* os.path.splitext(p)[1]: the extension, from the last dot of the last
\* component, unless that component holds only dots before it
SplitExt1(p) ==
    LET sep == RFind1(p, 47)
        dot == RFind1(p, 46)
    IN  IF dot > sep /\ \E k \in (sep + 1)..(dot - 1) : p[k] # 46
        THEN SliceFrom(p, dot - 1)
        ELSE <<>>

\* "\x00".join(list) + "\x00"
RECURSIVE JoinNul(_)
JoinNul(list) ==
    IF list = <<>> THEN <<>>
    ELSE IF Len(list) = 1 THEN list[1]
    ELSE list[1] \o <<0>> \o JoinNul(Tail(list))

\* a code point of 0xD800..0xDFFF: no character, and what Python 3 puts in
\* sys.argv for a command-line byte that is not UTF-8 (0xDC00 + the byte)
IsSurrogate(c) == c >= 55296 /\ c <= 57343

\* what an encoder gives for a text it raises UnicodeEncodeError on
UnicodeEncodeError == <<-2>>

\* the UTF-8 encoding of one code point (below 0x10000)
Utf8Char(c) ==
    IF IsSurrogate(c) THEN UnicodeEncodeError
    ELSE IF c < 128 THEN <<c>>
    ELSE IF c < 2048 THEN <<192 + (c \div 64), 128 + (c % 64)>>
    ELSE <<224 + (c \div 4096), 128 + ((c \div 64) % 64), 128 + (c % 64)>>

RECURSIVE Utf8Join(_)
Utf8Join(s) ==
    IF s = <<>> THEN <<>>
    ELSE IF Len(s) = 1 THEN Utf8Char(s[1])
    ELSE LET h == Len(s) \div 2
         IN  Utf8Join(SubSeq(s, 1, h)) \o Utf8Join(SubSeq(s, h + 1, Len(s)))

\* bytes(s, "utf8"): UnicodeEncodeError for a text that holds a surrogate
Utf8(s) ==
    IF \E i \in 1..Len(s) : IsSurrogate(s[i]) THEN UnicodeEncodeError
    ELSE Utf8Join(s)

\* os.fsencode of one code point: UTF-8 with surrogateescape, which turns
\* 0xDC80..0xDCFF back into the byte it stands for
FsEncodeChar(c) ==
    IF c >= 56448 /\ c <= 56575 THEN <<c - 56320>> ELSE Utf8Char(c)

RECURSIVE FsEncodeJoin(_)
FsEncodeJoin(s) ==
    IF s = <<>> THEN <<>>
    ELSE IF Len(s) = 1 THEN FsEncodeChar(s[1])
    ELSE LET h == Len(s) \div 2
         IN  FsEncodeJoin(SubSeq(s, 1, h))
                 \o FsEncodeJoin(SubSeq(s, h + 1, Len(s)))

\* os.fsencode(s): the bytes of a command-line word or of a path
FsEncode(s) ==
    IF \E i \in 1..Len(s) : FsEncodeChar(s[i]) = UnicodeEncodeError
    THEN UnicodeEncodeError
    ELSE FsEncodeJoin(s)

\* struct.pack("B", v), struct.pack(">H", v), struct.pack(">L", v) of the
\* number v = <<hi, lo>>: its big-endian bytes; struct.error when v does
\* not fit the width
PackFits(width, v) ==
    CASE width = 1 -> v[1] = 0 /\ v[2] < 256
      [] width = 2 -> v[1] = 0
      [] width = 4 -> v[1] < 65536

Pack(width, v) ==
    CASE width = 1 -> <<v[2] % 256>>
      [] width = 2 -> <<(v[2] \div 256) % 256, v[2] % 256>>
      [] width = 4 -> <<(v[1] \div 256) % 256, v[1] % 256,
                        (v[2] \div 256) % 256, v[2] % 256>>


(***************************************************************************)
(* The chunk planner of main: the offsets of                               *)
(*   [c_data[i:i + chunk_size] for i in range(0, len(c_data), chunk_size)] *)
(***************************************************************************)
\* range(0, n + 1, step): an end one too far
RangeFrom0Inclusive(n, step) == [k \in 1..((n \div step) + 1) |-> (k - 1) * step]

\* range(0, n, step) as a tuple
RangeFrom0(n, step) == [k \in 1..((n + step - 1) \div step) |-> (k - 1) * step]

\* data[i:j] of a payload of n bytes, as its offsets
Slice(n, i, j) == <<Min(i, n), Min(j, n)>>

\* slices one byte short of the step
ChunkListGap(n) ==
    LET starts == RangeFrom0(n, chunk_size)
    IN  [k \in 1..Len(starts) |->
            Slice(n, starts[k], starts[k] + chunk_size - 1)]

ChunkList(n) ==
    LET starts == RangeFrom0(n, chunk_size)
    IN  [k \in 1..Len(starts) |-> Slice(n, starts[k], starts[k] + chunk_size)]

(***************************************************************************)
(* The inputs of a run.                                                    *)
(***************************************************************************)
TCP == <<116, 99, 112, 58>>                                     \* "tcp:"
Addr == <<49, 57, 50, 46, 49, 54, 56, 46, 49, 46, 49, 50, 51>>  \* "192.168.1.123"
Addrs == {Addr, TCP \o Addr}

DotZip == <<46, 122, 105, 112>>                                 \* ".zip"
\* a list that lets a fourth kind through
SupportedExtsAndTxt ==
    {<<46, 100, 111, 108>>, <<46, 101, 108, 102>>, <<46, 122, 105, 112>>,
     <<46, 116, 120, 116>>}

SupportedExts == {<<46, 100, 111, 108>>, <<46, 101, 108, 102>>, DotZip}

AppDol  == <<97, 112, 112, 46, 100, 111, 108>>                  \* "app.dol"
EDol    == <<233, 46, 100, 111, 108>>                           \* "é.dol"
HBElf   == <<47, 104, 47, 98, 46, 101, 108, 102>>               \* "/h/b.elf"
NTxt    == <<110, 46, 116, 120, 116>>                           \* "n.txt"
GoneDol == <<103, 46, 100, 111, 108>>                           \* "g.dol"
DirAbs  == <<47, 100>>                                          \* "/d"
DirAbsSlash == <<47, 100, 47>>                                  \* "/d/"
DirRel  == <<100>>                                              \* "d"

\* the command line after the program name: the path, then the arguments
\* forwarded to the application
CmdLines ==
    { <<>>,
      <<AppDol>>,
      <<AppDol, <<98>>, <<97>>>>,
      <<AppDol, <<>>, <<45, 118>>>>,
      <<EDol, <<233>>>>,
      <<AppDol, <<56575>>>>,
      <<HBElf>>,
      <<NTxt>>,
      <<GoneDol>>,
      <<DirAbs>>,
      <<DirAbsSlash>>,
      <<DirRel>> }

\* a file's content: its size and the length of zlib.compress of it (never
\* below the 8 bytes of an empty deflate stream)
ZLens == {k * chunk_size + d : k \in 1..MaxFullChunks, d \in {-1, 0, 1}}
Contents ==
    {[size |-> W(0), zlen |-> 8], [size |-> W(5), zlen |-> 13]}
        \cup {[size |-> W(3 * z), zlen |-> z] : z \in ZLens}

DirEntry == [kind |-> "dir", size |-> W(0), zlen |-> 0]
FileEntry(c) == [kind |-> "file", size |-> c.size, zlen |-> c.zlen]

Root == <<47>>
Cwd0 == <<47, 119>>                                             \* "/w"
Dirs0 == {Root, Cwd0, <<47, 104>>, DirAbs, Cwd0 \o <<47>> \o DirRel}
Files0 == {Cwd0 \o <<47>> \o AppDol, Cwd0 \o <<47>> \o FsEncode(EDol), HBElf,
           Cwd0 \o <<47>> \o NTxt}

\* what the user may type at a [y/n] prompt, and str.lower of it
Answers == {"y", "Yes", "n", "NO", "x"}
Lower(a) ==
    CASE a = "Yes" -> "yes"
      [] a = "NO" -> "no"
      [] OTHER -> a
Affirmative == {"y", "yes"}
Negative == {"n", "no"}

(***************************************************************************)
(* The state of a run.                                                     *)
(***************************************************************************)
VARIABLES
    pyver,       \* python_version[0]: 2 or 3
    environ,     \* os.environ: WII and WIILOAD, None when unset
    argv,        \* sys.argv[1:]
    fs,          \* the file system: absolute path (bytes) -> entry
    cwd,         \* the working directory (os.chdir changes it)
    pc,          \* where main is
    outcome,     \* why the run ended: the exit() or the exception
    ip_string,   \* getIP's ip, main's ip_string
    set_ip,      \* getIP's set_ip
    zip_or_not,  \* getFile's zip_or_not
    prompts,     \* answers given to getFile's prompt
    zips,        \* calls of zip
    file,        \* getFile's file, main's file
    wii_ip,      \* main's wii_ip: <<host, port>>
    raw_len,     \* the number of bytes main read from file, <<hi, lo>>
    c_data,      \* len(c_data)
    chunks,      \* main's chunks, each a slice <<lo, hi>> of c_data
    args,        \* main's args after the join
    conn,        \* the socket: "none", "created", "connected", "closed"
    hdr,         \* the next conn.send of connect, 1..6
    num,         \* send's num
    sent,        \* the conn.send calls that returned: [grp, buf]
    unwritten    \* bytes of those buffers that the socket did not take

vars == <<pyver, environ, argv, fs, cwd, pc, outcome, ip_string, set_ip,
          zip_or_not, prompts, zips, file, wii_ip, raw_len, c_data, chunks,
          args, conn, hdr, num, sent, unwritten>>

(***************************************************************************)
(* The file system as the os module sees it.                               *)
(***************************************************************************)
\* os.fsencode: Python 3 paths are str, Python 2 paths are bytes already
OsPath(p) == IF pyver = 3 THEN FsEncode(p) ELSE p

Resolve(d, p) ==
    IF p # <<>> /\ p[1] = 47 THEN p
    ELSE IF d = Root THEN Root \o p
    ELSE d \o <<47>> \o p

FsKey(d, p) ==
    LET a == RStripSlash(Resolve(d, p))
    IN  IF a = <<>> THEN Root ELSE a

\* the entry a path names, or a "none" entry
Stat(f, d, p) ==
    LET k == FsKey(d, p)
    IN  IF p = <<>> \/ k \notin DOMAIN f THEN [kind |-> "none", size |-> W(0), zlen |-> 0]
        ELSE IF p[Len(p)] = 47 /\ f[k].kind # "dir"
             THEN [kind |-> "none", size |-> W(0), zlen |-> 0]
        ELSE f[k]

\* os.path.exists, os.path.isdir, os.path.getsize, and what open().read()
\* and zlib.compress make of a file
Exists(p) == Stat(fs, cwd, OsPath(p)).kind # "none"
IsDir(p) == Stat(fs, cwd, OsPath(p)).kind = "dir"
IsFile(p) == Stat(fs, cwd, OsPath(p)).kind = "file"
GetSizeOfCompressed(p) == W(Stat(fs, cwd, OsPath(p)).zlen)
GetSize(p) == Stat(fs, cwd, OsPath(p)).size
ReadLen(p) == Stat(fs, cwd, OsPath(p)).size
ZlibLen(p) == Stat(fs, cwd, OsPath(p)).zlen

(***************************************************************************)
(* Init: the state when main starts.                                       *)
(***************************************************************************)
Blank ==
    /\ cwd = Cwd0
    /\ outcome = "running"
    /\ ip_string = None
    /\ set_ip = "i"
    /\ zip_or_not = "i"
    /\ prompts = 0
    /\ zips = 0
    /\ file = None
    /\ wii_ip = <<None, 0>>
    /\ raw_len = W(0)
    /\ chunks = <<>>
    /\ args = None
    /\ conn = "none"
    /\ hdr = 1
    /\ num = 0
    /\ sent = <<>>
    /\ unwritten = 0

Init ==
    /\ pyver \in {2, 3}
    /\ environ \in [WII : {None} \cup Addrs, WIILOAD : {None} \cup Addrs]
    /\ \E cmd \in CmdLines :
          argv = IF pyver = 3 THEN cmd
                 ELSE [i \in 1..Len(cmd) |-> FsEncode(cmd[i])]
    /\ \E c \in Contents :
          fs = [p \in Dirs0 \cup Files0 |->
                   IF p \in Dirs0 THEN DirEntry ELSE FileEntry(c)]
    /\ pc = "main"
    /\ c_data = 0
    /\ Blank

(***************************************************************************)
(* How a run ends early: exit() leaves with status 0 (SystemExit(None)),   *)
(* an uncaught exception leaves with a traceback.                          *)
(***************************************************************************)
Exit(why) == pc' = "exited" /\ outcome' = why
\* an exception that is caught and dropped
RaiseSwallowed(why) == pc' = pc /\ outcome' = why

Raise(why) == pc' = "crashed" /\ outcome' = why

\* the status the process leaves with: exit() is SystemExit(None), status 0;
\* an uncaught exception is status 1; falling off the end of main is 0
ExitStatus == IF pc = "crashed" THEN 1 ELSE 0

inputs == <<pyver, environ, argv>>
sock == <<conn, hdr, num, sent, unwritten>>
payload == <<raw_len, c_data, chunks, args, wii_ip>>
disk == <<fs, cwd>>
resolver == <<zip_or_not, prompts, zips, file>>

(***************************************************************************)
(* main, lines 199-213: the usage check.                                   *)
(***************************************************************************)
MainStart ==
    /\ pc = "main"
    /\ IF argv = <<>> THEN Exit("usage")
       ELSE pc' = "getIP" /\ outcome' = outcome
    /\ UNCHANGED <<inputs, disk, ip_string, set_ip, resolver, payload, sock>>

(***************************************************************************)
(* getIP, lines 51-57 and 77-80: the environment.                          *)
(***************************************************************************)
GetIPEnv ==
    /\ pc = "getIP"
    /\ IF environ.WII # None
       THEN ip_string' = TCP \o environ.WII /\ pc' = "getFile"
       ELSE IF environ.WIILOAD # None
       THEN ip_string' = environ.WIILOAD /\ pc' = "getFile"
       ELSE ip_string' = None /\ pc' = "ip_prompt"
    /\ set_ip' = "i"
    /\ UNCHANGED <<inputs, disk, outcome, resolver, payload, sock>>

(***************************************************************************)
(* getIP, lines 58-76: one pass of the prompt loop.  Every answer but      *)
(* n/no goes on to ask for the address; under Python 2 line 75 applies     *)
(* unary + to the str raw_input returned, a TypeError.                     *)
(***************************************************************************)
GetIPPrompt ==
    /\ pc = "ip_prompt"
    /\ \E ans \in Answers, addr \in Addrs :
          /\ set_ip' = ans
          /\ IF Lower(ans) \in Negative
             THEN Exit("goodbye_ip") /\ ip_string' = ip_string
             ELSE IF pyver = 3
             THEN /\ ip_string' = addr
                  /\ pc' = IF Lower(ans) \in Affirmative THEN "getFile"
                           ELSE "ip_prompt"
                  /\ outcome' = outcome
             ELSE Raise("TypeError") /\ ip_string' = ip_string
    /\ UNCHANGED <<inputs, disk, resolver, payload, sock>>

(***************************************************************************)
(* getFile, lines 87-94 and 107-115: existence, directory, extension.      *)
(***************************************************************************)
GetFile ==
    /\ pc = "getFile"
    /\ LET path == argv[1]
       IN  IF ~Exists(path)
           THEN Exit("not_found") /\ file' = file
           ELSE IF IsDir(path)
           THEN pc' = "zip_prompt" /\ outcome' = outcome /\ file' = file
           ELSE /\ file' = path
                /\ IF SplitExt1(path) \notin SupportedExts
                   THEN Exit("bad_ext")
                   ELSE pc' = "prepare" /\ outcome' = outcome
    /\ zip_or_not' = "i"
    /\ UNCHANGED <<inputs, disk, ip_string, set_ip, prompts, zips, payload, sock>>

(***************************************************************************)
(* zip, lines 174-189: chdir to the parent, write folder.zip there, and    *)
(* return path.rstrip("/") + ".zip".                                       *)
(***************************************************************************)
ZipHead(path) == PathSplit(path)[1]
ZipFolder(path) == PathSplit(path)[2]
ZipCanChdir(path) == IsDir(ZipHead(path))
ZipCwd(path) == FsKey(cwd, OsPath(ZipHead(path)))
ZipArchive(path) == FsKey(ZipCwd(path), OsPath(ZipFolder(path) \o DotZip))
\* the directory's own path handed back
ZipResultUnchanged(path) == path

ZipResult(path) == RStripSlash(path) \o DotZip

\* the archive zip writes: os.walk(folder) yields no entry, for the folder
\* "" and for a directory that holds nothing, as every directory handed to
\* zip here does, so the archive is the 22-byte end-of-central-directory
\* record alone, which zlib.compress turns into 14 bytes
EmptyArchive == [size |-> W(22), zlen |-> 14]

(***************************************************************************)
(* getFile, lines 95-106: one pass of the directory prompt loop.  Every    *)
(* answer but n/no calls zip.                                              *)
(***************************************************************************)
GetFilePrompt ==
    /\ pc = "zip_prompt"
    /\ prompts < MaxPrompts
    /\ prompts' = prompts + 1
    /\ \E ans \in Answers :
          LET path == argv[1]
          IN  /\ zip_or_not' = ans
              /\ IF Lower(ans) \in Negative
                 THEN Exit("goodbye_zip") /\ UNCHANGED <<disk, zips, file>>
                 ELSE IF ~ZipCanChdir(path)
                 THEN Raise("chdir") /\ zips' = zips + 1
                                     /\ UNCHANGED <<disk, file>>
                 ELSE /\ cwd' = ZipCwd(path)
                      /\ fs' = [k \in DOMAIN fs \cup {ZipArchive(path)} |->
                                   IF k = ZipArchive(path)
                                   THEN FileEntry(EmptyArchive)
                                   ELSE fs[k]]
                      /\ zips' = zips + 1
                      /\ file' = ZipResult(path)
                      /\ pc' = IF Lower(ans) \in Affirmative THEN "prepare"
                               ELSE "zip_prompt"
                      /\ outcome' = outcome
    /\ UNCHANGED <<inputs, ip_string, set_ip, payload, sock>>

(***************************************************************************)
(* main, lines 219-231: the target, the compressed payload, its chunks     *)
(* and the argument block.                                                 *)
(***************************************************************************)
\* ip_string[4:]
Host(s) == SliceFrom(s, 4)

\* [file] + sys.argv[2:]
ArgsListFullPath(f, av) == <<f>> \o Tail(av)

\* [os.path.basename(file)] + sys.argv[2:]
ArgsList(f, av) == <<BaseName(f)>> \o Tail(av)

\* "\x00".join(args) + "\x00"
ArgsBlock(list) == JoinNul(list) \o <<0>>

Prepare ==
    /\ pc = "prepare"
    /\ wii_ip' = <<Host(ip_string), WII_PORT>>
    /\ IF ~IsFile(file)
       THEN Raise("open") /\ UNCHANGED <<raw_len, c_data, chunks, args>>
       ELSE /\ raw_len' = ReadLen(file)
            /\ c_data' = ZlibLen(file)
            /\ chunks' = ChunkList(ZlibLen(file))
            /\ args' = ArgsBlock(ArgsList(file, argv))
            /\ pc' = "connect"
            /\ outcome' = outcome
    /\ UNCHANGED <<inputs, disk, ip_string, set_ip, resolver, sock>>

(***************************************************************************)
(* conn.send(buf): the socket accepts all of buf or a part of it and       *)
(* returns the count, which the program drops, or raises socket.error.     *)
(***************************************************************************)
BufLen(grp, buf) == IF grp = "chunk" THEN buf[2] - buf[1] ELSE Len(buf)

\* what conn.send may return for a buffer of n bytes: n, or less (and more
\* than 0)
SendReturns(n) ==
    {n - d : d \in {e \in 0..(MaxUnwritten - unwritten) : e = 0 \/ e < n}}

\* conn.send(buf) returned r: the call is logged and the return value dropped
Sent(grp, buf, r) ==
    /\ sent' = Append(sent, [grp |-> grp, buf |-> buf])
    /\ unwritten' = unwritten + (BufLen(grp, buf) - r)

(***************************************************************************)
(* connect, lines 122-132: the socket and the TCP connect.                 *)
(***************************************************************************)
\* a failed connect without the exit() of line 131
ConnectIgnoringFailure ==
    /\ pc = "connect"
    /\ \E ok \in BOOLEAN :
          IF ok THEN conn' = "connected" /\ pc' = "header" /\ outcome' = outcome
          ELSE conn' = "created" /\ pc' = "header" /\ outcome' = "connect_failed"
    /\ UNCHANGED <<inputs, disk, ip_string, set_ip, resolver, payload, hdr, num,
                   sent, unwritten>>

\* a failed connect that is tried again
ConnectRetrying ==
    /\ pc = "connect"
    /\ \E ok \in BOOLEAN :
          IF ok THEN conn' = "connected" /\ pc' = "header" /\ outcome' = outcome
          ELSE conn' = "created" /\ pc' = "connect" /\ outcome' = outcome
    /\ UNCHANGED <<inputs, disk, ip_string, set_ip, resolver, payload, hdr, num,
                   sent, unwritten>>

Connect ==
    /\ pc = "connect"
    /\ \E ok \in BOOLEAN :
          IF ok THEN conn' = "connected" /\ pc' = "header" /\ outcome' = outcome
          ELSE conn' = "created" /\ Exit("connect_failed")
    /\ UNCHANGED <<inputs, disk, ip_string, set_ip, resolver, payload, hdr, num,
                   sent, unwritten>>

(***************************************************************************)
(* connect, lines 134-142: the six conn.send calls of the header.          *)
(***************************************************************************)
Magic == <<72, 65, 88, 88>>                                     \* "HAXX"

\* what the i-th call sends
HeaderGrp(i) ==
    CASE i = 1 -> "magic"
      [] i = 2 -> "major"
      [] i = 3 -> "minor"
      [] i = 4 -> "arglen"
      [] i = 5 -> "clen"
      [] i = 6 -> "olen"

HeaderWidth(i) == IF i = 4 THEN 2 ELSE IF i \in {5, 6} THEN 4 ELSE 1

\* the number the i-th call packs
HeaderValue(i) ==
    CASE i = 2 -> W(WIILOAD_VERSION_MAJOR)
      [] i = 3 -> W(WIILOAD_VERSION_MINOR)
      [] i = 4 -> W(Len(args))
      [] i = 5 -> W(c_data)
      [] i = 6 -> GetSize(file)

HeaderBuf(i) ==
    IF i = 1 THEN (IF pyver = 3 THEN Utf8(Magic) ELSE Magic)
    ELSE Pack(HeaderWidth(i), HeaderValue(i))

HeaderSend ==
    /\ pc = "header"
    /\ IF hdr # 1 /\ ~PackFits(HeaderWidth(hdr), HeaderValue(hdr))
       THEN Raise("struct.error") /\ UNCHANGED <<hdr, sent, unwritten>>
       ELSE \E failed \in BOOLEAN :
               IF failed
               THEN Raise("socket.error") /\ UNCHANGED <<hdr, sent, unwritten>>
               ELSE \E n \in SendReturns(Len(HeaderBuf(hdr))) :
                       /\ Sent(HeaderGrp(hdr), HeaderBuf(hdr), n)
                       /\ hdr' = hdr + 1
                       /\ pc' = IF hdr = 6 THEN "send" ELSE "header"
                       /\ outcome' = outcome
    /\ UNCHANGED <<inputs, disk, ip_string, set_ip, resolver, payload, conn, num>>

(***************************************************************************)
(* send, lines 153-162: one pass of the loop over the chunks.              *)
(***************************************************************************)
\* the piece of the pass that follows num passes of "for piece in chunks"
PieceAtReversed(list, k) == list[Len(list) - k]

PieceAt(list, k) == list[k + 1]

SendPiece ==
    /\ pc = "send"
    /\ num < Len(chunks)
    /\ LET piece == PieceAt(chunks, num)
       IN  \E failed \in BOOLEAN :
              IF failed
              THEN Raise("socket.error") /\ UNCHANGED <<num, sent, unwritten>>
              ELSE \E n \in SendReturns(BufLen("chunk", piece)) :
                      /\ Sent("chunk", piece, n)
                      /\ num' = num + 1
                      /\ UNCHANGED <<pc, outcome>>
    /\ UNCHANGED <<inputs, disk, ip_string, set_ip, resolver, payload, conn, hdr>>

(***************************************************************************)
(* send, lines 163-166: the argument block.                                *)
(***************************************************************************)
ArgsBuf == IF pyver = 3 THEN Utf8(args) ELSE args

SendArgs ==
    /\ pc = "send"
    /\ num = Len(chunks)
    /\ IF ArgsBuf = UnicodeEncodeError
       THEN Raise("UnicodeEncodeError") /\ UNCHANGED <<sent, unwritten>>
       ELSE \E failed \in BOOLEAN :
               IF failed
               THEN Raise("socket.error") /\ UNCHANGED <<sent, unwritten>>
               ELSE \E n \in SendReturns(Len(ArgsBuf)) :
                       /\ Sent("args", ArgsBuf, n)
                       /\ pc' = "close"
                       /\ outcome' = outcome
    /\ UNCHANGED <<inputs, disk, ip_string, set_ip, resolver, payload, conn, hdr,
                   num>>

(***************************************************************************)
(* send, line 167, and main, line 238: close, and the parting message.     *)
(***************************************************************************)
Close ==
    /\ pc = "close"
    /\ conn' = "closed"
    /\ pc' = "done"
    /\ outcome' = "done"
    /\ UNCHANGED <<inputs, disk, ip_string, set_ip, resolver, payload, hdr, num,
                   sent, unwritten>>

Next ==
    \/ MainStart
    \/ GetIPEnv
    \/ GetIPPrompt
    \/ GetFile
    \/ GetFilePrompt
    \/ Prepare
    \/ Connect
    \/ HeaderSend
    \/ SendPiece
    \/ SendArgs
    \/ Close

Spec == Init /\ [][Next]_vars

(***************************************************************************)
(* The chunk planner on its own: ChunkList applied to payload lengths      *)
(* around every multiple of chunk_size, the empty payload included.        *)
(***************************************************************************)
PlanLens ==
    {n \in {k * chunk_size + d : k \in 0..(MaxFullChunks + 1),
                                 d \in (-LenSpread)..LenSpread} : n >= 0}

ChunkInit ==
    /\ pyver = 3
    /\ environ = [WII |-> None, WIILOAD |-> None]
    /\ argv = <<>>
    /\ fs = [p \in Dirs0 |-> DirEntry]
    /\ pc = "plan"
    /\ c_data \in PlanLens
    /\ Blank

ChunkPlan ==
    /\ pc = "plan"
    /\ chunks' = ChunkList(c_data)
    /\ pc' = "planned"
    /\ UNCHANGED <<inputs, disk, outcome, ip_string, set_ip, resolver, raw_len,
                   c_data, args, wii_ip, sock>>

ChunkSpec == ChunkInit /\ [][ChunkPlan]_vars

(***************************************************************************)
(* The run of main at the limits of the header's fields: sixteen arguments  *)
(* that make an argument block of 65535 bytes and of one byte more,         *)
(* sixteen arguments of 2048 times "e acute" that make a block of 32792     *)
(* characters and 65560 bytes of UTF-8, and a file of 2^32 - 1 bytes and of *)
(* one byte more, beside a small file and a directory.                      *)
(***************************************************************************)
LongArgLists ==
    {[k \in 1..16 |-> [i \in 1..(IF k < 16 THEN 4095 ELSE n) |-> 97]] :
        n \in {65535 - (Len(AppDol) + 1) - 15 * 4096 - 1,
               65536 - (Len(AppDol) + 1) - 15 * 4096 - 1}}

LongAccentedArgs == [k \in 1..16 |-> [i \in 1..2048 |-> 233]]

LimitCmdLines ==
    {<<AppDol>>, <<DirAbs>>, <<AppDol>> \o LongAccentedArgs}
        \cup {<<AppDol>> \o l : l \in LongArgLists}

SmallContent == [size |-> W(5), zlen |-> 13]

LimitContents ==
    {SmallContent,
     [size |-> <<65535, 65535>>, zlen |-> 32 * chunk_size + 5],
     [size |-> <<65536, 0>>, zlen |-> 32 * chunk_size + 5]}

LimitInit ==
    /\ pyver \in {2, 3}
    /\ environ \in [WII : {None}, WIILOAD : {None, TCP \o Addr}]
    /\ \E cmd \in LimitCmdLines, c \in LimitContents :
          /\ cmd = <<AppDol>> \/ c = SmallContent
          /\ argv = IF pyver = 3 THEN cmd
                    ELSE [i \in 1..Len(cmd) |-> FsEncode(cmd[i])]
          /\ fs = [p \in Dirs0 \cup Files0 |->
                      IF p \in Dirs0 THEN DirEntry ELSE FileEntry(c)]
    /\ pc = "main"
    /\ c_data = 0
    /\ Blank

LimitSpec == LimitInit /\ [][Next]_vars

(***************************************************************************)
(* Properties.                                                             *)
(***************************************************************************)
IsPrefix(a, b) == Len(a) <= Len(b) /\ a = SubSeq(b, 1, Len(a))

\* the unsigned number a big-endian byte string spells
RECURSIVE BEValue(_)
BEValue(b) ==
    IF b = <<>> THEN 0
    ELSE BEValue(SubSeq(b, 1, Len(b) - 1)) * 256 + b[Len(b)]

\* the number <<hi, lo>> that four big-endian bytes spell
WideValue(b) == <<b[1] * 256 + b[2], b[3] * 256 + b[4]>>

\* the calls of one kind in the log
Calls(grp) == {i \in 1..Len(sent) : sent[i].grp = grp}

\* the bytes of the buffers the log's first k calls handed over
RECURSIVE Handed(_)
Handed(k) == IF k = 0 THEN <<>> ELSE Handed(k - 1) \o sent[k].buf

RECURSIVE SumLens(_)
SumLens(list) ==
    IF list = <<>> THEN 0
    ELSE (list[1][2] - list[1][1]) + SumLens(Tail(list))

\* bytes.split(b"\x00")
RECURSIVE SplitNul(_)
SplitNul(b) ==
    IF \A i \in 1..Len(b) : b[i] # 0 THEN <<b>>
    ELSE LET i == CHOOSE j \in 1..Len(b) :
                      b[j] = 0 /\ \A m \in 1..(j - 1) : b[m] # 0
         IN  <<SubSeq(b, 1, i - 1)>> \o SplitNul(SubSeq(b, i + 1, Len(b)))

\* a text of the program as the bytes it stands for
AsBytes(t) == IF pyver = 3 THEN Utf8(t) ELSE t

\* the last component of a path: what follows its last slash
LastComponent(p) ==
    LET k == CHOOSE j \in 0..Len(p) :
                 /\ \A m \in (j + 1)..Len(p) : p[m] # 47
                 /\ (j > 0 => p[j] = 47)
    IN  SubSeq(p, k + 1, Len(p))

ExpectedTags ==
    <<"magic", "major", "minor", "arglen", "clen", "olen">>
        \o [k \in 1..Len(chunks) |-> "chunk"] \o <<"args">>

\* C1: the conn.send calls of a run are, in order, the magic marker, the
\* header fields (major, minor, argument-block length, compressed length,
\* original length), the chunks in sequence order, each once, and the
\* argument block; every call made so far is the next one of that order,
\* none is made before the connect succeeded, and a run that reaches its
\* parting message has made all of them.
C1_WriteOrder ==
    /\ IsPrefix([i \in 1..Len(sent) |-> sent[i].grp], ExpectedTags)
    /\ (sent # <<>> => conn \in {"connected", "closed"})
    /\ \A i \in Calls("magic") : sent[i].buf = <<72, 65, 88, 88>>
    /\ \A i \in Calls("major") : sent[i].buf = <<0>>
    /\ \A i \in Calls("minor") : sent[i].buf = <<5>>
    /\ \A i \in Calls("arglen") : Len(sent[i].buf) = 2
    /\ \A i \in Calls("clen") : BEValue(sent[i].buf) = c_data
    /\ \A i \in Calls("olen") : WideValue(sent[i].buf) = raw_len
    /\ \A i \in Calls("chunk") : sent[i].buf = chunks[i - 6]
    /\ (pc = "done" => Len(sent) = Len(ExpectedTags))

C1_Witness ==
    /\ pc = "done"
    /\ Len(chunks) >= 3
    /\ Len(sent) = 10

\* C2: a run that reports success has written the complete byte stream:
\* all its conn.send calls were made and the socket left no byte of their
\* buffers untaken.
C2_NoPartialSuccess ==
    pc = "done" => Len(sent) = Len(ExpectedTags) /\ unwritten = 0

\* C3: the original-length field handed to the socket is the number of
\* bytes read from the file and compressed, and the compressed-length field
\* is the total length of the chunks, those planned and, once all are
\* sent, those sent.
C3_HeaderLengths ==
    /\ \A i \in Calls("olen") :
          Len(sent[i].buf) = 4 /\ WideValue(sent[i].buf) = raw_len
    /\ \A i \in Calls("clen") :
          /\ BEValue(sent[i].buf) = SumLens(chunks)
          /\ (Calls("args") # {} =>
                 BEValue(sent[i].buf) =
                     SumLens([k \in 1..Len(chunks) |-> sent[6 + k].buf]))

C3_Witness ==
    /\ pc = "done"
    /\ raw_len = W(3 * c_data)
    /\ Len(chunks) >= 2
    /\ BEValue(sent[6].buf) = 3 * c_data

\* C4: the argument-block length field of the header is the number of
\* bytes of the argument block sent after the chunks.
C4_ArgLenIsByteLen ==
    \A i \in Calls("arglen"), j \in Calls("args") :
        BEValue(sent[i].buf) = Len(sent[j].buf)

\* C5: the first 16 bytes handed to a connected socket are "HAXX", 0, 5,
\* the byte length of the argument block in 2 bytes big-endian, the
\* compressed length and the original length in 4 bytes big-endian each;
\* for app.dol alone the argument-block length is 8.
C5_HeaderLayout ==
    Len(sent) >= 6 =>
        LET h == Handed(6)
        IN  /\ Len(h) = 16
            /\ SubSeq(h, 1, 4) = <<72, 65, 88, 88>>
            /\ h[5] = 0
            /\ h[6] = 5
            /\ h[7] * 256 + h[8] = Len(AsBytes(args))
            /\ ((h[9] * 256 + h[10]) * 256 + h[11]) * 256 + h[12] = c_data
            /\ <<h[13] * 256 + h[14], h[15] * 256 + h[16]>> = raw_len
            /\ (argv = <<AppDol>> => h[7] = 0 /\ h[8] = 8)

\* C6: the chunk list main builds covers the compressed payload in offset
\* order with no gap and no overlap: the first chunk starts at 0, every
\* chunk starts where the one before it ends, and the last ends at the
\* payload's end.
C6_ChunksCover ==
    pc \in {"connect", "header", "send", "close", "done"} =>
        /\ \A k \in 1..Len(chunks) : chunks[k][1] <= chunks[k][2]
        /\ \A k \in 1..(Len(chunks) - 1) : chunks[k][2] = chunks[k + 1][1]
        /\ (chunks # <<>> =>
               chunks[1][1] = 0 /\ chunks[Len(chunks)][2] = c_data)
        /\ (chunks = <<>> => c_data = 0)

C6_Witness ==
    /\ pc = "connect"
    /\ Len(chunks) = 3
    /\ chunks[3] = <<262144, 262145>>

\* C7: every chunk the planner makes is non-empty and at most 131072 bytes,
\* every chunk but the last is exactly 131072 bytes, and an empty payload
\* gives no chunk.
C7_ChunkSizes ==
    pc = "planned" =>
        /\ \A k \in 1..Len(chunks) :
              /\ chunks[k][2] - chunks[k][1] > 0
              /\ chunks[k][2] - chunks[k][1] <= 131072
              /\ (k < Len(chunks) => chunks[k][2] - chunks[k][1] = 131072)
        /\ (c_data = 0 => chunks = <<>>)

C7_Witness ==
    /\ pc = "planned"
    /\ Len(chunks) = 3
    /\ chunks[3][2] - chunks[3][1] = 5
    /\ chunks[2][2] - chunks[2][1] = 131072

\* C8: splitting the argument block on NUL, the block main builds and the
\* bytes of it that send writes alike, gives the payload's base name, then
\* the caller's arguments in the caller's order, then one empty element.
C8_ArgsRoundTrip ==
    /\ args # None =>
          SplitNul(args) = <<LastComponent(file)>> \o Tail(argv) \o <<<<>>>>
    /\ \A j \in Calls("args") :
          SplitNul(sent[j].buf) =
              <<AsBytes(LastComponent(file))>>
                  \o [k \in 1..(Len(argv) - 1) |-> AsBytes(argv[k + 1])]
                  \o <<<<>>>>

C8_Witness ==
    /\ Calls("args") # {}
    /\ Len(argv) = 3
    /\ SplitNul(sent[Len(sent)].buf) = <<AppDol, <<98>>, <<97>>, <<>>>>

HasPrefix(s) == Len(s) >= 4 /\ SubSeq(s, 1, 4) = <<116, 99, 112, 58>>

\* C9: no socket is created for an endpoint string that lacks the "tcp:"
\* prefix.
C9_PrefixRequired == conn # "none" => HasPrefix(ip_string)

\* the address the user supplied: $WII, else $WIILOAD, else the prompt's
Supplied ==
    IF environ.WII # None THEN environ.WII
    ELSE IF environ.WIILOAD # None THEN environ.WIILOAD
    ELSE ip_string

WithoutPrefix(s) == IF HasPrefix(s) THEN SubSeq(s, 5, Len(s)) ELSE s

\* C10: the host connected to is the supplied address without its "tcp:"
\* prefix, and the port is 4299.
C10_HostIsAddress ==
    conn # "none" => wii_ip = <<WithoutPrefix(Supplied), 4299>>

Ended == pc \in {"exited", "crashed", "done"}

\* C11: a run that created a socket has closed it by the time it ends,
\* whether the transfer completed, the connect failed or a write failed.
C11_AlwaysClosed == (Ended /\ conn # "none") => conn = "closed"

\* C12: a run whose path is missing, whose extension is unsupported or
\* whose connect fails ends there, with a non-zero exit status.
C12_ErrorsExitNonZero ==
    outcome \in {"not_found", "bad_ext", "connect_failed"} =>
        Ended /\ ExitStatus # 0

\* C13: when the connect fails the run ends there, and no conn.send call,
\* not even that of the magic marker, is ever made.
C13_RefusedWritesNothing ==
    outcome = "connect_failed" =>
        pc = "exited" /\ sent = <<>> /\ unwritten = 0 /\ hdr = 1 /\ num = 0

C13_Witness == outcome = "connect_failed" /\ conn = "created" /\ chunks # <<>>

EndsWith(s, e) == Len(s) >= Len(e) /\ SubSeq(s, Len(s) - Len(e) + 1, Len(s)) = e

Transferable ==
    {<<46, 100, 111, 108>>, <<46, 101, 108, 102>>, <<46, 122, 105, 112>>}

\* the path on the command line names a regular file
FileArg == argv # <<>> /\ Stat(fs, Cwd0, OsPath(argv[1])).kind = "file"

\* C14: a run given a regular file whose name ends in none of .dol, .elf,
\* .zip never compresses it, never creates a socket and never writes; and
\* whenever a socket exists, a file of one of the three kinds has been
\* compressed, chunked and its argument block built.
C14_OnlyThreeKinds ==
    /\ (FileArg /\ ~\E e \in Transferable : EndsWith(argv[1], e)) =>
           /\ c_data = 0 /\ chunks = <<>> /\ args = None
           /\ conn = "none" /\ sent = <<>>
           /\ pc \in {"main", "getIP", "ip_prompt", "getFile", "exited", "crashed"}
    /\ conn # "none" =>
           /\ \E e \in Transferable : EndsWith(file, e)
           /\ c_data > 0 /\ chunks = ChunkList(c_data) /\ args # None

C14_Witness == outcome = "bad_ext" /\ file = <<110, 46, 116, 120, 116>>

\* C15: the socket goes none -> connected -> closed and never back: it is
\* connected at most once and only from "none" (a failed connect leaves it
\* created, for good), it is closed only after writes and only once,
\* and every conn.send is made on the connected socket.
C15_SingleUse ==
    [][/\ (conn' # conn =>
              \/ conn = "none" /\ conn' \in {"created", "connected"}
              \/ conn = "connected" /\ conn' = "closed" /\ sent # <<>>)
       /\ (sent' # sent => conn = "connected" /\ conn' = "connected")]_vars

C15_Witness == pc = "done" /\ conn = "closed" /\ Len(sent) >= 8

\* C16: when a conn.send raises, the run ends with the exception: no
\* conn.send call is made after it and the run does not report success.
C16_WriteFailureAbandons ==
    [][/\ (outcome' = "socket.error" => pc' = "crashed")
       /\ (outcome = "socket.error" =>
              sent' = sent /\ conn' = conn /\ outcome' = outcome)]_vars

C16_Witness ==
    /\ outcome = "socket.error"
    /\ pc = "crashed"
    /\ Len(sent) = 7
    /\ Len(chunks) >= 2

\* the path on the command line names a directory
DirArg == argv # <<>> /\ Stat(fs, Cwd0, OsPath(argv[1])).kind = "dir"

\* C18: for a directory, the path main reads, compresses and sends is the
\* archive path the packaging step returned (the directory's path with
\* ".zip" in place of trailing slashes), never the directory's own path; a
\* run whose user declines ends without compressing or connecting.
C18_DirectoryNeedsArchive ==
    DirArg =>
        /\ (file # None =>
               /\ zips >= 1
               /\ file # argv[1]
               /\ \E k \in 1..Len(argv[1]) :
                     /\ file = SubSeq(argv[1], 1, k) \o <<46, 122, 105, 112>>
                     /\ argv[1][k] # 47
                     /\ \A m \in (k + 1)..Len(argv[1]) : argv[1][m] = 47)
        /\ (file = None => c_data = 0 /\ args = None /\ conn = "none")
        /\ (outcome = "goodbye_zip" =>
               c_data = 0 /\ args = None /\ conn = "none" /\ sent = <<>>)

C18_Witness ==
    /\ DirArg
    /\ pc = "done"
    /\ file = <<47, 100, 46, 122, 105, 112>>

\* C19: zip is called at most once in a run, and only after the answer y
\* or yes; any other answer leaves the directory unarchived.
C19_ZipOnlyOnYes ==
    /\ zips <= 1
    /\ (zips >= 1 => Lower(zip_or_not) \in {"y", "yes"})


\* the argument block as send writes it, or the file read, is too long
\* for its header field
ArgsOverflow == args # None /\ Len(ArgsBuf) > 65535
SizeOverflow == raw_len[1] >= 65536

\* C17: a length that overflows its header field (an argument block longer
\* than 65535 bytes, a compressed or original length above 2^32 - 1) is
\* never written truncated or wrapped: every length field written spells the
\* true length in full, the argument-block field the number of bytes of the
\* block that send writes, and on an overflow the write of the header fails
\* with struct.error, nothing of that field or after it is written, and the
\* run does not reach its end as a transfer done.
C17_NoWrappedLength ==
    /\ \A i \in Calls("arglen") :
          Len(sent[i].buf) = 2 /\ BEValue(sent[i].buf) = Len(ArgsBuf)
    /\ \A i \in Calls("clen") :
          Len(sent[i].buf) = 4 /\ WideValue(sent[i].buf) = W(c_data)
    /\ \A i \in Calls("olen") :
          Len(sent[i].buf) = 4 /\ WideValue(sent[i].buf) = raw_len
    /\ ArgsOverflow =>
          /\ Len(sent) <= 3 /\ hdr <= 4 /\ pc # "done" /\ outcome # "done"
          /\ (hdr = 4 /\ Ended) => outcome = "struct.error" /\ pc = "crashed"
    /\ (SizeOverflow /\ ~ArgsOverflow) =>
          /\ Len(sent) <= 5 /\ hdr <= 6 /\ pc # "done" /\ outcome # "done"
          /\ (hdr = 6 /\ Ended) => outcome = "struct.error" /\ pc = "crashed"
    /\ outcome = "struct.error" => ArgsOverflow \/ SizeOverflow

\* C20: the header is all or nothing: a failure that the inputs alone
\* decide, a length overflow above all, is raised before the connection is
\* opened and before any byte is written, so that a run ended by
\* struct.error has created no socket and written nothing.
C20_HeaderAllOrNothing ==
    outcome = "struct.error" => conn = "none" /\ sent = <<>>

=============================================================================
